---- MODULE Spec2Model ----
(***************************************************************************)
(* A model of the vacation calendar component (App, src/unnamed/part_000). *)
(*                                                                         *)
(* A calendar date string "YYYY-MM-DD" is the tuple <<y, m, d>> (m in      *)
(* 1..12); null is NoDate.  A JavaScript Date at local midnight is the     *)
(* number of days since 1970-01-01.  The document store (Firestore) is the *)
(* pair of collections sEmployees / sVacations; the component's cached     *)
(* lists are employees / vacations.                                        *)
(***************************************************************************)
EXTENDS Integers, Sequences, FiniteSets, Bags, TLC

VARIABLES
    employees,          \* useState([])   line 48: cached employee records
    vacations,          \* useState([])   line 49: cached vacation records
    viewYear,           \* line 50
    viewMonth,          \* line 51 (0..11)
    selectStart,        \* line 52 (date or NoDate)
    selectEnd,          \* line 53 (date or NoDate)
    assignEmployeeId,   \* line 54 (id or NoId)
    newEmployeeName,    \* line 57 (a sequence of characters)
    message,            \* line 58 (a message or NoMsg)
    db,                 \* line 59: TRUE once setDb(firestore) ran
    isAuthReady,        \* line 62
    lifecycle,          \* "constructed", "mounted" (the effects ran) or "unmounted"
    timers,             \* number of pending setTimeout callbacks of line 230
    sEmployees,         \* the store's employees collection: documents [id, data]
    sVacations,         \* the store's vacations collection: documents [id, data]
    nextEmpId,          \* number of employee document ids the store has generated
    nextVacId,          \* number of vacation document ids the store has generated
    inflight,           \* bag of store requests awaiting their reply
    removed,            \* history: ids removeEmployee was called with, those
                        \* whose cascade a failed reply or a later add has
                        \* spoiled, and the vacation ids a cascade deleted
    lastOp,             \* history: the name of the last step, for some steps
    fnArgs,             \* the arguments a pure function is applied to
    fnOut               \* <<its result>>, <<>> before it is applied

vars == <<employees, vacations, viewYear, viewMonth, selectStart, selectEnd,
          assignEmployeeId, newEmployeeName, message, db, isAuthReady, lifecycle,
          timers, sEmployees, sVacations, nextEmpId, nextVacId, inflight,
          removed, lastOp, fnArgs, fnOut>>

NoDate == <<>>
NoId == 0
NoMsg == "null"

----------------------------------------------------------------------------
(* JavaScript Date arithmetic used by the component                        *)

IsLeap(y) == (y % 4 = 0 /\ y % 100 # 0) \/ y % 400 = 0

DaysInMonth(y, m) ==
    IF m = 2 THEN (IF IsLeap(y) THEN 29 ELSE 28)
    ELSE IF m \in {4, 6, 9, 11} THEN 30 ELSE 31

LeapsThrough(y) == (y \div 4) - (y \div 100) + (y \div 400)

\* days from 1970-01-01 to y-01-01
DaysBeforeYear(y) == 365 * (y - 1970) + LeapsThrough(y - 1) - LeapsThrough(1969)

\* days from y-01-01 to the first of month m (1..12)
CumDays == <<0, 31, 59, 90, 120, 151, 181, 212, 243, 273, 304, 334>>
DaysBeforeMonth(y, m) == CumDays[m] + (IF m > 2 /\ IsLeap(y) THEN 1 ELSE 0)

\* new Date(year, monthIndex, day): monthIndex may be 12 and day may be 0, as
\* in line 157; the constructor normalises both.
NewDate(year, monthIndex, day) ==
    LET y == year + (monthIndex \div 12)
        m == (monthIndex % 12) + 1
    IN  DaysBeforeYear(y) + DaysBeforeMonth(y, m) + day - 1

\* Date.prototype.getDay(): 1970-01-01 was a Thursday (4); Sunday is 0
GetDay(t) == (t + 4) % 7

\* a year has 365 or 366 days, which brackets the year of day t (t >= 0)
GetFullYear(t) ==
    CHOOSE y \in (1970 + (t \div 366))..(1970 + (t \div 365)) :
        DaysBeforeYear(y) <= t /\ t < DaysBeforeYear(y + 1)

\* getMonth() + 1
GetMonth1(t) ==
    LET y == GetFullYear(t)
        r == t - DaysBeforeYear(y)
    IN  CHOOSE m \in 1..12 :
            DaysBeforeMonth(y, m) <= r /\ r < DaysBeforeMonth(y, m) + DaysInMonth(y, m)

GetDate(t) ==
    LET y == GetFullYear(t)
    IN  t - DaysBeforeYear(y) - DaysBeforeMonth(y, GetMonth1(t)) + 1

\* formatYMD of a Date object (a string argument is returned as it is)
formatYMD(t) == <<GetFullYear(t), GetMonth1(t), GetDate(t)>>

\* parseYMD(s) = new Date(y, m - 1, d)
parseYMD(s) == NewDate(s[1], s[2] - 1, s[3])

rangesOverlap_boundaryExcluded(aStart, aEnd, bStart, bEnd) ==
    ~(parseYMD(aEnd) <= parseYMD(bStart) \/ parseYMD(bEnd) <= parseYMD(aStart))

rangesOverlap(aStart, aEnd, bStart, bEnd) ==
    ~(parseYMD(aEnd) < parseYMD(bStart) \/ parseYMD(bEnd) < parseYMD(aStart))

----------------------------------------------------------------------------
(* Calendar grid builder (useMemo monthDays)                                *)

\* the first week, lines 160-167: slot i (0-based) is null left of firstWeekday
FirstWeek(year, month, firstWeekday) ==
    [i \in 1..7 |-> IF i - 1 < firstWeekday THEN NoDate
                    ELSE formatYMD(NewDate(year, month, 1 + (i - 1) - firstWeekday))]

\* one later week, lines 170-174, starting with day dayCounter
LaterWeek(year, month, dayCounter, daysInMonth) ==
    [i \in 1..7 |-> IF dayCounter + (i - 1) <= daysInMonth
                    THEN formatYMD(NewDate(year, month, dayCounter + (i - 1)))
                    ELSE NoDate]

\* the while loop of lines 169-176
RECURSIVE LaterWeeks(_, _, _, _, _)
LaterWeeks(year, month, dayCounter, daysInMonth, weeks) ==
    IF dayCounter <= daysInMonth
    THEN LaterWeeks(year, month, dayCounter + 7, daysInMonth,
                    Append(weeks, LaterWeek(year, month, dayCounter, daysInMonth)))
    ELSE weeks

monthDays_firstWeekOffByOne(year, month) ==
    LET firstWeekday == GetDay(NewDate(year, month, 1))
        daysInMonth == GetDate(NewDate(year, month + 1, 0))
    IN  LaterWeeks(year, month, 1 + (7 - firstWeekday), daysInMonth,
                   <<FirstWeek(year, month, (firstWeekday + 1) % 7)>>)

monthDays(year, month) ==
    LET firstWeekday == GetDay(NewDate(year, month, 1))
        daysInMonth == GetDate(NewDate(year, month + 1, 0))
    IN  LaterWeeks(year, month, 1 + (7 - firstWeekday), daysInMonth,
                   <<FirstWeek(year, month, firstWeekday)>>)

\* useMemo(..., [viewYear, viewMonth]): the grid of every month a run can view
FirstYear == 2000
YearSpan == 28
ViewYears == FirstYear..(FirstYear + YearSpan - 1)
\* (@@ makes TLC tabulate the function once instead of on every use)
monthDaysMemo == [ym \in ViewYears \X (0..11) |-> monthDays(ym[1], ym[2])] @@ <<>>

\* monthDays.flat(), line 380
RECURSIVE Flat(_)
Flat(weeks) == IF weeks = <<>> THEN <<>> ELSE Head(weeks) \o Flat(Tail(weeks))

----------------------------------------------------------------------------
(* Values                                                                   *)

\* the messages of tryAssign, lines 212-214, 229 and 234 (accents dropped)
MsgRange == "Selecciona un rango valido (start y end)."
MsgEmployee == "Selecciona un empleado al que asignar esas vacaciones."
MsgNoDb == "Error: No se puede conectar a la base de datos."
MsgAssigned == "Vacaciones asignadas correctamente."
MsgAssignFail == "Error al asignar vacaciones. Intenta de nuevo."

\* the fallback object of employeeById, line 301
\* a name is the sequence of its characters, a color the tuple of its parts
Desconocido == <<"D", "e", "s", "c", "o", "n", "o", "c", "i", "d", "o">>
Placeholder == [name |-> Desconocido, color |-> <<"gray">>]

\* a request to the store that has not been answered yet
Req(op, emp, vac, start, end, name, color) ==
    [op |-> op, emp |-> emp, vac |-> vac, start |-> start, end |-> end,
     name |-> name, color |-> color]

AddVacReq(emp, start, end) == Req("addDoc vacations", emp, NoId, start, end, <<>>, <<>>)
DelVacReq(vac) == Req("deleteDoc vacation", NoId, vac, NoDate, NoDate, <<>>, <<>>)
AddEmpReq(name, color) == Req("addDoc employees", NoId, NoId, NoDate, NoDate, name, color)
DelEmpReq(emp) == Req("deleteDoc employee", emp, NoId, NoDate, NoDate, <<>>, <<>>)
GetVacsReq(emp) == Req("getDocs vacations", emp, NoId, NoDate, NoDate, <<>>, <<>>)
CascadeReq(emp, vac) == Req("deleteDoc d.ref", emp, vac, NoDate, NoDate, <<>>, <<>>)

Requests == BagToSet(inflight)
Sent(r) == inflight (+) SetToBag({r})
Answered(r) == inflight (-) SetToBag({r})

\* lastOp is the name of the last step when it is one of these, and ""
\* after any other step
EarlyReturns == {"padding click", "addEmployee returned", "removeVacation returned",
                 "removeEmployee returned"}
Recorded ==
    EarlyReturns \cup {"day click swapped", "assigned over a changed selection",
                       "unhandled rejection"}
Op(op, arg) == IF op \in Recorded THEN op ELSE ""

\* { id: doc.id, ...doc.data() }, lines 113 and 133
EmployeeOfDoc(d) == [id |-> d.id, name |-> d.data.name, color |-> d.data.color]
VacationOfDoc(d) ==
    [id |-> d.id, employeeId |-> d.data.employeeId, start |-> d.data.start,
     end |-> d.data.end]

EmployeeDoc(id, name, color) == [id |-> id, data |-> [name |-> name, color |-> color]]
VacationDoc(id, newVac) == [id |-> id, data |-> newVac]

----------------------------------------------------------------------------
(* Bounds of the model                                                      *)

MaxInFlight == 1        \* remove handlers awaiting the store at once
MaxVacations == 1       \* vacation documents created in a run
MaxEmployees == 1       \* employee documents created in a run
MaxTimers == 1          \* pending setTimeout callbacks

----------------------------------------------------------------------------
(* Derived view data                                                        *)

vacationsCovering_endExcluded(date) ==
    IF date = NoDate THEN {}
    ELSE {v \in vacations :
            parseYMD(v.start) <= parseYMD(date) /\ parseYMD(date) < parseYMD(v.end)}

vacationsCovering(date) ==
    IF date = NoDate THEN {}
    ELSE {v \in vacations :
            parseYMD(v.start) <= parseYMD(date) /\ parseYMD(date) <= parseYMD(v.end)}

employeeById_ignoresId(id) ==
    IF employees # {} THEN CHOOSE e \in employees : TRUE ELSE Placeholder

employeeById(id) ==
    IF \E e \in employees : e.id = id
    THEN CHOOSE e \in employees : e.id = id
    ELSE Placeholder

\* the selection after onDayClick(dateStr), dateStr not null: lines 187-201
onDayClickSel_noSwap(start, end, dateStr) ==
    IF start = NoDate THEN <<dateStr, NoDate>>
    ELSE IF end = NoDate THEN <<start, dateStr>>
    ELSE <<dateStr, NoDate>>

onDayClickSel_keepsEnd(start, end, dateStr) ==
    IF start = NoDate THEN <<dateStr, NoDate>>
    ELSE IF end = NoDate
         THEN IF parseYMD(dateStr) < parseYMD(start)
              THEN <<dateStr, start>>
              ELSE <<start, dateStr>>
    ELSE <<dateStr, end>>

onDayClickSel(start, end, dateStr) ==
    IF start = NoDate THEN <<dateStr, NoDate>>
    ELSE IF end = NoDate
         THEN IF parseYMD(dateStr) < parseYMD(start)
              THEN <<dateStr, start>>
              ELSE <<start, dateStr>>
    ELSE <<dateStr, NoDate>>

\* the grid slot (0-based, in monthDays.flat()) a click lands on; NoDate when
\* the slot is padding
SlotDate(slot) ==
    LET flat == Flat(monthDaysMemo[<<viewYear, viewMonth>>])
    IN  IF slot + 1 <= Len(flat) THEN flat[slot + 1] ELSE NoDate

----------------------------------------------------------------------------
(* The state after construction                                             *)

storeVars == <<sEmployees, sVacations, nextEmpId, nextVacId>>
cacheVars == <<employees, vacations>>
viewVars == <<viewYear, viewMonth>>
selVars == <<selectStart, selectEnd>>
bootVars == <<db, isAuthReady, lifecycle>>
fnVars == <<fnArgs, fnOut>>

\* useState initial values, lines 48-62, over a store that holds the documents
\* emps and vacs of earlier sessions (their ids are above those of this run)
ConstructedApp(year, month, emps, vacs) ==
    /\ employees = {}
    /\ vacations = {}
    /\ viewYear = year
    /\ viewMonth = month
    /\ selectStart = NoDate
    /\ selectEnd = NoDate
    /\ assignEmployeeId = NoId
    /\ newEmployeeName = <<>>
    /\ message = NoMsg
    /\ db = FALSE
    /\ isAuthReady = FALSE
    /\ lifecycle = "constructed"
    /\ timers = 0
    /\ sEmployees = emps
    /\ sVacations = vacs
    /\ nextEmpId = 0
    /\ nextVacId = 0
    /\ inflight = EmptyBag
    /\ removed = [called |-> {}, spoiled |-> {}, cascaded |-> {}]
    /\ lastOp = ""

Constructed(year, month, emps, vacs) ==
    /\ ConstructedApp(year, month, emps, vacs)
    /\ fnArgs = <<>>
    /\ fnOut = <<>>

----------------------------------------------------------------------------
(* Mount: the effects of lines 65-141                                       *)

\* lines 65-101: initializeApp/getFirestore/getAuth either succeed, and setDb
\* runs, or throw, and the catch of line 98 leaves db null for good
InitFirebase(ok) ==
    /\ lifecycle = "constructed"
    /\ lifecycle' = "mounted"
    /\ db' = ok
    /\ lastOp' = Op(IF ok THEN "init" ELSE "init failed", <<>>)
    /\ UNCHANGED <<cacheVars, viewVars, selVars, assignEmployeeId, newEmployeeName,
                   message, isAuthReady, timers, storeVars, inflight, removed, fnVars>>

\* lines 77-95: the auth callback ends with setIsAuthReady(true), with a user
\* or after a failed sign-in
AuthStateChanged ==
    /\ lifecycle = "mounted"
    /\ db
    /\ ~isAuthReady
    /\ isAuthReady' = TRUE
    /\ lastOp' = Op("auth", <<>>)
    /\ UNCHANGED <<cacheVars, viewVars, selVars, assignEmployeeId, newEmployeeName,
                   message, db, lifecycle, timers, storeVars, inflight, removed, fnVars>>

\* the guard of lines 105 and 125, while the cleanups have not run
Subscribed_afterTeardown == db /\ isAuthReady

Subscribed == lifecycle = "mounted" /\ db /\ isAuthReady

\* lines 110-115: a snapshot of the employees collection arrives
EmployeesSnapshot ==
    /\ Subscribed
    /\ employees # {EmployeeOfDoc(d) : d \in sEmployees}
    /\ employees' = {EmployeeOfDoc(d) : d \in sEmployees}
    /\ lastOp' = Op("employees snapshot", <<>>)
    /\ UNCHANGED <<vacations, viewVars, selVars, assignEmployeeId, newEmployeeName,
                   message, bootVars, timers, storeVars, inflight, removed, fnVars>>

\* lines 130-135: a snapshot of the vacations collection arrives
VacationsSnapshot ==
    /\ Subscribed
    /\ vacations # {VacationOfDoc(d) : d \in sVacations}
    /\ vacations' = {VacationOfDoc(d) : d \in sVacations}
    /\ lastOp' = Op("vacations snapshot", <<>>)
    /\ UNCHANGED <<employees, viewVars, selVars, assignEmployeeId, newEmployeeName,
                   message, bootVars, timers, storeVars, inflight, removed, fnVars>>

\* teardown: React runs the cleanups of lines 97, 120 and 140, which
\* unsubscribe the auth listener and the two snapshot listeners
Unmount ==
    /\ lifecycle = "mounted"
    /\ lifecycle' = "unmounted"
    /\ lastOp' = Op("unmount", <<>>)
    /\ UNCHANGED <<cacheVars, viewVars, selVars, assignEmployeeId, newEmployeeName,
                   message, db, isAuthReady, timers, storeVars, inflight, removed,
                   fnVars>>

\* a state setter called by a continuation or a timer: React drops the update
\* of a component that was unmounted
SetState(new, old) == IF lifecycle = "mounted" THEN new ELSE old

----------------------------------------------------------------------------
(* Navigation, lines 361-363; months is the set of <<year, month>> a run    *)
(* may view                                                                 *)

PrevMonth(months) ==
    /\ lifecycle = "mounted"
    /\ IF viewMonth - 1 < 0
       THEN viewMonth' = 11 /\ viewYear' = viewYear - 1
       ELSE viewMonth' = viewMonth - 1 /\ viewYear' = viewYear
    /\ <<viewYear', viewMonth'>> \in months
    /\ lastOp' = Op("prev", <<>>)
    /\ UNCHANGED <<cacheVars, selVars, assignEmployeeId, newEmployeeName, message,
                   bootVars, timers, storeVars, inflight, removed, fnVars>>

NextMonth_wrapsEarly(months) ==
    /\ lifecycle = "mounted"
    /\ IF viewMonth + 1 > 10
       THEN viewMonth' = 0 /\ viewYear' = viewYear + 1
       ELSE viewMonth' = viewMonth + 1 /\ viewYear' = viewYear
    /\ <<viewYear', viewMonth'>> \in months
    /\ lastOp' = Op("next", <<>>)
    /\ UNCHANGED <<cacheVars, selVars, assignEmployeeId, newEmployeeName, message,
                   bootVars, timers, storeVars, inflight, removed, fnVars>>

NextMonth(months) ==
    /\ lifecycle = "mounted"
    /\ IF viewMonth + 1 > 11
       THEN viewMonth' = 0 /\ viewYear' = viewYear + 1
       ELSE viewMonth' = viewMonth + 1 /\ viewYear' = viewYear
    /\ <<viewYear', viewMonth'>> \in months
    /\ lastOp' = Op("next", <<>>)
    /\ UNCHANGED <<cacheVars, selVars, assignEmployeeId, newEmployeeName, message,
                   bootVars, timers, storeVars, inflight, removed, fnVars>>

\* "Hoy": new Date() is whatever month the clock shows
Today(year, month) ==
    /\ lifecycle = "mounted"
    /\ viewMonth' = month
    /\ viewYear' = year
    /\ lastOp' = Op("today", <<>>)
    /\ UNCHANGED <<cacheVars, selVars, assignEmployeeId, newEmployeeName, message,
                   bootVars, timers, storeVars, inflight, removed, fnVars>>

----------------------------------------------------------------------------
(* Selection, lines 185-209                                                 *)

onDayClick_paddingClearsMessage(slot) ==
    LET dateStr == SlotDate(slot)
        sel == onDayClickSel(selectStart, selectEnd, dateStr)
    IN  /\ lifecycle = "mounted"
        /\ IF dateStr = NoDate
           THEN /\ lastOp' = Op("padding click", <<>>)
                /\ message' = NoMsg
                /\ UNCHANGED selVars
           ELSE /\ selectStart' = sel[1]
                /\ selectEnd' = sel[2]
                /\ message' = IF selectStart = NoDate THEN NoMsg ELSE message
                /\ lastOp' = Op("day click", dateStr)
        /\ UNCHANGED <<cacheVars, viewVars, assignEmployeeId, newEmployeeName,
                       bootVars, timers, storeVars, inflight, removed, fnVars>>

\* a click on grid slot `slot`: onDayClick(d) with d the slot's date or null
onDayClick(slot) ==
    LET dateStr == SlotDate(slot)
        sel == onDayClickSel(selectStart, selectEnd, dateStr)
    IN  /\ lifecycle = "mounted"
        /\ IF dateStr = NoDate
           THEN /\ lastOp' = Op("padding click", <<>>)
                /\ UNCHANGED <<selVars, message>>
           ELSE /\ selectStart' = sel[1]
                /\ selectEnd' = sel[2]
                /\ message' = IF selectStart = NoDate THEN NoMsg ELSE message
                /\ lastOp' = Op(IF /\ selectStart # NoDate
                                    /\ selectEnd = NoDate
                                    /\ parseYMD(dateStr) < parseYMD(selectStart)
                                 THEN "day click swapped" ELSE "day click", dateStr)
        /\ UNCHANGED <<cacheVars, viewVars, assignEmployeeId, newEmployeeName,
                       bootVars, timers, storeVars, inflight, removed, fnVars>>

\* what clearSelection sets, lines 204-209
clearSelection_keepsStart ==
    [selectStart |-> selectStart, selectEnd |-> NoDate, assignEmployeeId |-> NoId,
     message |-> NoMsg]

clearSelection ==
    [selectStart |-> NoDate, selectEnd |-> NoDate, assignEmployeeId |-> NoId,
     message |-> NoMsg]

\* "Cancelar": clearSelection as a handler
Cancel ==
    /\ lifecycle = "mounted"
    /\ selectStart' = clearSelection.selectStart
    /\ selectEnd' = clearSelection.selectEnd
    /\ assignEmployeeId' = clearSelection.assignEmployeeId
    /\ message' = clearSelection.message
    /\ lastOp' = Op("cancel", <<>>)
    /\ UNCHANGED <<cacheVars, viewVars, newEmployeeName, bootVars, timers,
                   storeVars, inflight, removed, fnVars>>

\* lines 431-434: an entry of the "Asignar a" list is clicked
PickEmployee(id) ==
    /\ lifecycle = "mounted"
    /\ \E em \in employees : em.id = id
    /\ assignEmployeeId' = id
    /\ lastOp' = Op("pick employee", <<id>>)
    /\ UNCHANGED <<cacheVars, viewVars, selVars, newEmployeeName, message, bootVars,
                   timers, storeVars, inflight, removed, fnVars>>

----------------------------------------------------------------------------
(* Strings                                                                  *)

IsSpace(c) == c = " "

\* String.prototype.trim
RECURSIVE TrimStart(_)
TrimStart(s) == IF s # <<>> /\ IsSpace(Head(s)) THEN TrimStart(Tail(s)) ELSE s
RECURSIVE TrimEnd(_)
TrimEnd(s) ==
    IF s # <<>> /\ IsSpace(s[Len(s)]) THEN TrimEnd(SubSeq(s, 1, Len(s) - 1)) ELSE s
trim_startOnly(s) == TrimStart(s)

trim(s) == TrimEnd(TrimStart(s))

\* randomPastel(), lines 40-45, with h the hue Math.random() gives
randomPastel(h) == <<"linear-gradient", h, (h + 30) % 360>>

----------------------------------------------------------------------------
(* Assign, lines 211-236                                                    *)

\* what the three guards of lines 212-214 decide: a message, or "send"
tryAssignVerdict_noEmployeeCheck ==
    IF selectStart = NoDate \/ selectEnd = NoDate THEN MsgRange
    ELSE IF ~db THEN MsgNoDb
    ELSE "send"

tryAssignVerdict ==
    IF selectStart = NoDate \/ selectEnd = NoDate THEN MsgRange
    ELSE IF assignEmployeeId = NoId THEN MsgEmployee
    ELSE IF ~db THEN MsgNoDb
    ELSE "send"

\* line 225
newVac_unordered == [employeeId |-> assignEmployeeId, start |-> selectEnd, end |-> selectStart]

newVac == [employeeId |-> assignEmployeeId, start |-> selectStart, end |-> selectEnd]

\* the number of requests in flight whose kind is in ops
Pending(ops) ==
    LET rs == {r \in Requests : r.op \in ops}
    IN  BagCardinality([r \in rs |-> inflight[r]])

Deletes == {"deleteDoc vacation", "deleteDoc employee", "getDocs vacations",
            "deleteDoc d.ref"}

Spoil(emp) ==
    IF emp \in removed.called THEN [removed EXCEPT !.spoiled = @ \cup {emp}]
    ELSE removed

\* "Asignar": tryAssign up to its await, line 226, while fewer than limit
\* vacations were added or are being added
tryAssignWithin(limit) ==
    /\ lifecycle = "mounted"
    /\ IF tryAssignVerdict # "send"
       THEN /\ message' = tryAssignVerdict
            /\ lastOp' = Op("tryAssign rejected", <<>>)
            /\ UNCHANGED inflight
       ELSE /\ nextVacId + Pending({"addDoc vacations"}) < limit
            /\ inflight' = Sent(AddVacReq(newVac.employeeId, newVac.start, newVac.end))
            /\ lastOp' = Op("tryAssign sent", <<>>)
            /\ UNCHANGED message
    /\ UNCHANGED <<cacheVars, viewVars, selVars, assignEmployeeId, newEmployeeName,
                   bootVars, timers, storeVars, removed, fnVars>>

tryAssign == tryAssignWithin(MaxVacations)

\* the store adds the vacation and tryAssign resumes at line 228:
\* clearSelection(), the success message, and the timer of line 230
AddVacationResolved(r) ==
    /\ r \in Requests
    /\ r.op = "addDoc vacations"
    /\ timers < MaxTimers
    /\ sVacations' = sVacations \cup
          {VacationDoc(nextVacId + 1,
                       [employeeId |-> r.emp, start |-> r.start, end |-> r.end])}
    /\ nextVacId' = nextVacId + 1
    /\ inflight' = Answered(r)
    /\ selectStart' = SetState(clearSelection.selectStart, selectStart)
    /\ selectEnd' = SetState(clearSelection.selectEnd, selectEnd)
    /\ assignEmployeeId' = SetState(clearSelection.assignEmployeeId, assignEmployeeId)
    /\ message' = SetState(MsgAssigned, message)
    /\ timers' = timers + 1
    /\ removed' = Spoil(r.emp)
    /\ lastOp' = Op(IF selectStart # NoDate /\ <<selectStart, selectEnd>> # <<r.start, r.end>>
                    THEN "assigned over a changed selection" ELSE "assigned", <<>>)
    /\ UNCHANGED <<cacheVars, viewVars, newEmployeeName, bootVars, sEmployees,
                   nextEmpId, fnVars>>

\* the store rejects the add and tryAssign resumes in its catch, line 232
AddVacationRejected(r) ==
    /\ r \in Requests
    /\ r.op = "addDoc vacations"
    /\ inflight' = Answered(r)
    /\ message' = SetState(MsgAssignFail, message)
    /\ lastOp' = Op("assign failed", <<>>)
    /\ UNCHANGED <<cacheVars, viewVars, selVars, assignEmployeeId, newEmployeeName,
                   bootVars, timers, storeVars, removed, fnVars>>

\* the callback of line 230
TimerFires ==
    /\ timers > 0
    /\ timers' = timers - 1
    /\ message' = SetState(NoMsg, message)
    /\ lastOp' = Op("timer", <<>>)
    /\ UNCHANGED <<cacheVars, viewVars, selVars, assignEmployeeId, newEmployeeName,
                   bootVars, storeVars, inflight, removed, fnVars>>

----------------------------------------------------------------------------
(* Remove vacation, lines 238-247                                           *)

removeVacation(vacId) ==
    /\ lifecycle = "mounted"
    /\ \E v \in vacations : v.id = vacId
    /\ IF ~db
       THEN /\ UNCHANGED inflight
            /\ lastOp' = Op("removeVacation returned", <<vacId>>)
       ELSE /\ Pending(Deletes) < MaxInFlight
            /\ inflight' = Sent(DelVacReq(vacId))
            /\ lastOp' = Op("removeVacation sent", <<vacId>>)
    /\ UNCHANGED <<cacheVars, viewVars, selVars, assignEmployeeId, newEmployeeName,
                   message, bootVars, timers, storeVars, removed, fnVars>>

DeleteVacationResolved_patchesCache(r) ==
    /\ r \in Requests
    /\ r.op = "deleteDoc vacation"
    /\ sVacations' = {d \in sVacations : d.id # r.vac}
    /\ vacations' = {v \in vacations : v.id # r.vac}
    /\ inflight' = Answered(r)
    /\ lastOp' = Op("vacation deleted", <<r.vac>>)
    /\ UNCHANGED <<employees, viewVars, selVars, assignEmployeeId, newEmployeeName,
                   message, bootVars, timers, sEmployees, nextEmpId, nextVacId,
                   removed, fnVars>>

DeleteVacationResolved(r) ==
    /\ r \in Requests
    /\ r.op = "deleteDoc vacation"
    /\ sVacations' = {d \in sVacations : d.id # r.vac}
    /\ inflight' = Answered(r)
    /\ lastOp' = Op("vacation deleted", <<r.vac>>)
    /\ UNCHANGED <<cacheVars, viewVars, selVars, assignEmployeeId, newEmployeeName,
                   message, bootVars, timers, sEmployees, nextEmpId, nextVacId,
                   removed, fnVars>>

\* the catch of line 244 only logs
DeleteVacationRejected(r) ==
    /\ r \in Requests
    /\ r.op = "deleteDoc vacation"
    /\ inflight' = Answered(r)
    /\ lastOp' = Op("removeVacation failed", <<r.vac>>)
    /\ UNCHANGED <<cacheVars, viewVars, selVars, assignEmployeeId, newEmployeeName,
                   message, bootVars, timers, storeVars, removed, fnVars>>

----------------------------------------------------------------------------
(* Add employee, lines 249-262 and 318                                      *)

\* onChange of the name input
TypeName(text) ==
    /\ lifecycle = "mounted"
    /\ newEmployeeName # text
    /\ newEmployeeName' = text
    /\ lastOp' = Op("type name", <<>>)
    /\ UNCHANGED <<cacheVars, viewVars, selVars, assignEmployeeId, message, bootVars,
                   timers, storeVars, inflight, removed, fnVars>>

\* "+": addEmployee up to its await, line 257; h is the hue randomPastel draws
addEmployee(h) ==
    LET name == trim(newEmployeeName)
    IN  /\ lifecycle = "mounted"
        /\ IF ~db \/ name = <<>>
           THEN /\ UNCHANGED inflight
                /\ lastOp' = Op("addEmployee returned", <<>>)
           ELSE /\ nextEmpId + Pending({"addDoc employees"}) < MaxEmployees
                /\ inflight' = Sent(AddEmpReq(name, randomPastel(h)))
                /\ lastOp' = Op("addEmployee sent", <<>>)
        /\ UNCHANGED <<cacheVars, viewVars, selVars, assignEmployeeId, newEmployeeName,
                       message, bootVars, timers, storeVars, removed, fnVars>>

\* the store adds the employee and addEmployee resumes at line 258
AddEmployeeResolved(r) ==
    /\ r \in Requests
    /\ r.op = "addDoc employees"
    /\ sEmployees' = sEmployees \cup {EmployeeDoc(nextEmpId + 1, r.name, r.color)}
    /\ nextEmpId' = nextEmpId + 1
    /\ inflight' = Answered(r)
    /\ newEmployeeName' = SetState(<<>>, newEmployeeName)
    /\ lastOp' = Op("employee added", <<nextEmpId + 1>>)
    /\ UNCHANGED <<cacheVars, viewVars, selVars, assignEmployeeId, message, bootVars,
                   timers, sVacations, nextVacId, removed, fnVars>>

\* the catch of line 259 only logs
AddEmployeeRejected(r) ==
    /\ r \in Requests
    /\ r.op = "addDoc employees"
    /\ inflight' = Answered(r)
    /\ lastOp' = Op("addEmployee failed", <<>>)
    /\ UNCHANGED <<cacheVars, viewVars, selVars, assignEmployeeId, newEmployeeName,
                   message, bootVars, timers, storeVars, removed, fnVars>>

----------------------------------------------------------------------------
(* Remove employee, lines 264-283                                           *)

\* "-": removeEmployee up to its first await, line 272
removeEmployee(empId) ==
    /\ lifecycle = "mounted"
    /\ \E e \in employees : e.id = empId
    /\ IF ~db
       THEN /\ UNCHANGED <<inflight, removed>>
            /\ lastOp' = Op("removeEmployee returned", <<empId>>)
       ELSE /\ Pending(Deletes) < MaxInFlight
            /\ inflight' = Sent(DelEmpReq(empId))
            /\ removed' = [removed EXCEPT !.called = @ \cup {empId}]
            /\ lastOp' = Op("removeEmployee sent", <<empId>>)
    /\ UNCHANGED <<cacheVars, viewVars, selVars, assignEmployeeId, newEmployeeName,
                   message, bootVars, timers, storeVars, fnVars>>

\* the employee document is deleted; removeEmployee resumes at line 275 and
\* awaits the query
DeleteEmployeeResolved(r) ==
    /\ r \in Requests
    /\ r.op = "deleteDoc employee"
    /\ sEmployees' = {d \in sEmployees : d.id # r.emp}
    /\ inflight' = Answered(r) (+) SetToBag({GetVacsReq(r.emp)})
    /\ lastOp' = Op("employee deleted", <<r.emp>>)
    /\ UNCHANGED <<cacheVars, viewVars, selVars, assignEmployeeId, newEmployeeName,
                   message, bootVars, timers, sVacations, nextEmpId, nextVacId,
                   removed, fnVars>>

\* the delete or the query is rejected: the catch of line 280 only logs
RemoveEmployeeRejected(r) ==
    /\ r \in Requests
    /\ r.op \in {"deleteDoc employee", "getDocs vacations"}
    /\ inflight' = Answered(r)
    /\ removed' = Spoil(r.emp)
    /\ lastOp' = Op("removeEmployee failed", <<r.emp>>)
    /\ UNCHANGED <<cacheVars, viewVars, selVars, assignEmployeeId, newEmployeeName,
                   message, bootVars, timers, storeVars, fnVars>>

\* the documents the query of line 275 matches
QueryResult_firstOnly(empId) ==
    LET all == {d \in sVacations : d.data.employeeId = empId}
    IN  IF all = {} THEN {} ELSE {CHOOSE d \in all : \A x \in all : d.id <= x.id}

QueryResult(empId) == {d \in sVacations : d.data.employeeId = empId}

\* the query is answered; the forEach of lines 277-279 starts one deleteDoc
\* per matching document and removeEmployee returns without awaiting them
QueryResolved(r) ==
    /\ r \in Requests
    /\ r.op = "getDocs vacations"
    /\ inflight' = Answered(r) (+)
                   SetToBag({CascadeReq(r.emp, d.id) : d \in QueryResult(r.emp)})
    /\ lastOp' = Op("vacations queried", <<r.emp>>)
    /\ UNCHANGED <<cacheVars, viewVars, selVars, assignEmployeeId, newEmployeeName,
                   message, bootVars, timers, storeVars, removed, fnVars>>

CascadeDeleteResolved(r) ==
    /\ r \in Requests
    /\ r.op = "deleteDoc d.ref"
    /\ sVacations' = {d \in sVacations : d.id # r.vac}
    /\ inflight' = Answered(r)
    /\ removed' = [removed EXCEPT !.cascaded = @ \cup {r.vac}]
    /\ lastOp' = Op("cascade deleted", <<r.vac>>)
    /\ UNCHANGED <<cacheVars, viewVars, selVars, assignEmployeeId, newEmployeeName,
                   message, bootVars, timers, sEmployees, nextEmpId, nextVacId, fnVars>>

\* a rejected deleteDoc inside the async callback of line 277: nothing awaits
\* the callback's promise, so the rejection reaches no catch
CascadeDeleteRejected(r) ==
    /\ r \in Requests
    /\ r.op = "deleteDoc d.ref"
    /\ inflight' = Answered(r)
    /\ removed' = Spoil(r.emp)
    /\ lastOp' = Op("unhandled rejection", <<r.vac>>)
    /\ UNCHANGED <<cacheVars, viewVars, selVars, assignEmployeeId, newEmployeeName,
                   message, bootVars, timers, storeVars, fnVars>>

----------------------------------------------------------------------------
(* Inputs of a run                                                          *)

\* the months viewed: December 2023 and January 2024
ViewMonths == {<<2023, 11>>, <<2024, 0>>}

\* grid slots the user clicks: slot 0 is padding in December 2023 and in
\* January 2024, slot 6 is 2023-12-02 and 2024-01-06
ClickSlots == {0, 6}
NameInputs == {<<>>, <<" ">>, <<" ", "A", " ">>}
Hues == {340}
EmployeeIds == {e.id : e \in employees}
VacationIds == {v.id : v \in vacations}

Ana == <<"A", "n", "a">>
Luis == <<"L", "u", "i", "s">>
OneEmployee == {EmployeeDoc(11, Ana, randomPastel(340))}
TwoEmployees == OneEmployee \cup {EmployeeDoc(12, Luis, randomPastel(100))}
OneVacation ==
    {VacationDoc(21, [employeeId |-> 11, start |-> <<2023, 12, 2>>, end |-> <<2024, 1, 6>>])}
TwoVacations ==
    OneVacation \cup
    {VacationDoc(22, [employeeId |-> 11, start |-> <<2024, 1, 6>>, end |-> <<2024, 1, 6>>])}

----------------------------------------------------------------------------
(* The selection and assignment scenario: two employees and a vacation      *)
(* assigned in an earlier session are in the store; the user navigates,     *)
(* clicks days, picks an employee, assigns and cancels                      *)

InitSel == \E ym \in ViewMonths : Constructed(ym[1], ym[2], TwoEmployees, OneVacation)

NextSel ==
    \/ \E ok \in BOOLEAN : InitFirebase(ok)
    \/ AuthStateChanged
    \/ EmployeesSnapshot
    \/ VacationsSnapshot
    \/ PrevMonth(ViewMonths)
    \/ NextMonth(ViewMonths)
    \/ \E ym \in ViewMonths : Today(ym[1], ym[2])
    \/ \E slot \in ClickSlots : onDayClick(slot)
    \/ Cancel
    \/ \E id \in EmployeeIds : PickEmployee(id)
    \/ tryAssign
    \/ TimerFires
    \/ \E r \in Requests : AddVacationResolved(r)
    \/ \E r \in Requests : AddVacationRejected(r)

SpecSel == InitSel /\ [][NextSel]_vars

\* the same scenario with its scheduling: a pending setTimeout callback runs,
\* and the store answers every request; the user is free to stop acting
InitSelFair == InitSel
NextSelFair == NextSel
SpecSelFair ==
    /\ InitSelFair
    /\ [][NextSelFair]_vars
    /\ WF_vars(TimerFires)
    /\ WF_vars(\E r \in Requests : AddVacationResolved(r) \/ AddVacationRejected(r))

----------------------------------------------------------------------------
(* The removal scenario: an employee with two vacations is in the store; the *)
(* user assigns single-day vacations and removes the employee, and every    *)
(* store request may be rejected                                            *)

Init == Constructed(2024, 0, OneEmployee, TwoVacations)

Next ==
    \/ \E ok \in BOOLEAN : InitFirebase(ok)
    \/ AuthStateChanged
    \/ EmployeesSnapshot
    \/ VacationsSnapshot
    \/ onDayClick(6)
    \/ \E id \in EmployeeIds : PickEmployee(id)
    \/ tryAssign
    \/ TimerFires
    \/ \E id \in EmployeeIds : removeEmployee(id)
    \/ \E r \in Requests : AddVacationResolved(r)
    \/ \E r \in Requests : AddVacationRejected(r)
    \/ \E r \in Requests : DeleteEmployeeResolved(r)
    \/ \E r \in Requests : RemoveEmployeeRejected(r)
    \/ \E r \in Requests : QueryResolved(r)
    \/ \E r \in Requests : CascadeDeleteResolved(r)
    \/ \E r \in Requests : CascadeDeleteRejected(r)

Spec == Init /\ [][Next]_vars

----------------------------------------------------------------------------
(* The list scenario: employees are added and removed and vacations are     *)
(* removed, and every store request may be rejected                         *)

InitStore == Constructed(2024, 0, OneEmployee, OneVacation)

NextStore ==
    \/ \E ok \in BOOLEAN : InitFirebase(ok)
    \/ AuthStateChanged
    \/ EmployeesSnapshot
    \/ VacationsSnapshot
    \/ \E id \in VacationIds : removeVacation(id)
    \/ \E text \in NameInputs : TypeName(text)
    \/ \E h \in Hues : addEmployee(h)
    \/ \E id \in EmployeeIds : removeEmployee(id)
    \/ \E r \in Requests : DeleteVacationResolved(r)
    \/ \E r \in Requests : DeleteVacationRejected(r)
    \/ \E r \in Requests : AddEmployeeResolved(r)
    \/ \E r \in Requests : AddEmployeeRejected(r)
    \/ \E r \in Requests : DeleteEmployeeResolved(r)
    \/ \E r \in Requests : RemoveEmployeeRejected(r)
    \/ \E r \in Requests : QueryResolved(r)
    \/ \E r \in Requests : CascadeDeleteResolved(r)
    \/ \E r \in Requests : CascadeDeleteRejected(r)

SpecStore == InitStore /\ [][NextStore]_vars

----------------------------------------------------------------------------
(* The calendar scenario: the view cursor walks over every month of         *)
(* ViewYears, which holds every first weekday with every month length       *)

AllMonths == ViewYears \X (0..11)

InitGrid == \E ym \in AllMonths : Constructed(ym[1], ym[2], {}, {})

NextGrid ==
    \/ \E ok \in BOOLEAN : InitFirebase(ok)
    \/ PrevMonth(AllMonths)
    \/ NextMonth(AllMonths)
    \/ Today(2024, 1)

SpecGrid == InitGrid /\ [][NextGrid]_vars

----------------------------------------------------------------------------
(* rangesOverlap applied to every four of these dates                       *)

OverlapDates ==
    {<<2023, 12, 31>>, <<2024, 1, 10>>, <<2024, 1, 14>>, <<2024, 1, 15>>, <<2024, 1, 20>>}

\* a call rangesOverlap(aStart, aEnd, bStart, bEnd)
CallRangesOverlap ==
    /\ fnOut = <<>>
    /\ fnOut' = <<rangesOverlap(fnArgs[1], fnArgs[2], fnArgs[3], fnArgs[4])>>
    /\ UNCHANGED <<cacheVars, viewVars, selVars, assignEmployeeId, newEmployeeName,
                   message, bootVars, timers, storeVars, inflight, removed, lastOp,
                   fnArgs>>

InitFn ==
    /\ ConstructedApp(2024, 0, {}, {})
    /\ fnArgs \in OverlapDates \X OverlapDates \X OverlapDates \X OverlapDates
    /\ fnOut = <<>>

NextFn == CallRangesOverlap

SpecFn == InitFn /\ [][NextFn]_vars

----------------------------------------------------------------------------
(* The whole component with a patient user: every handler, reply and        *)
(* lifecycle step occurs; the user acts only when no request and no timer   *)
(* is pending and the cached lists show what the store holds, edits the     *)
(* lists only over an empty selection, and selects only over an empty name  *)
(* input                                                                    *)

Patient ==
    /\ inflight = EmptyBag
    /\ timers = 0
    /\ Subscribed => /\ employees = {EmployeeOfDoc(d) : d \in sEmployees}
                     /\ vacations = {VacationOfDoc(d) : d \in sVacations}

Selecting == Patient /\ newEmployeeName = <<>>
Listing == Patient /\ selectStart = NoDate /\ assignEmployeeId = NoId

\* the months viewed, November 2023 to January 2024; of the slots clicked,
\* slot 0 is padding in all three and slot 1 is a day, 2024-01-01, only in
\* January; the one name typed
AppMonths == {<<2023, 10>>, <<2023, 11>>, <<2024, 0>>}
AppSlots == {0, 1}
AppNames == {<<" ", "A", " ">>}

InitApp == Constructed(2024, 0, OneEmployee, OneVacation)

NextApp ==
    \/ \E ok \in BOOLEAN : InitFirebase(ok)
    \/ AuthStateChanged
    \/ EmployeesSnapshot
    \/ VacationsSnapshot
    \/ Unmount
    \/ Patient /\ PrevMonth(AppMonths)
    \/ Patient /\ NextMonth(AppMonths)
    \/ Patient /\ \E ym \in AppMonths : Today(ym[1], ym[2])
    \/ Selecting /\ \E slot \in AppSlots : onDayClick(slot)
    \/ Selecting /\ Cancel
    \/ Selecting /\ \E id \in EmployeeIds : PickEmployee(id)
    \/ Selecting /\ tryAssign
    \/ TimerFires
    \/ Listing /\ \E id \in VacationIds : removeVacation(id)
    \/ Listing /\ \E text \in AppNames : TypeName(text)
    \/ Listing /\ \E h \in Hues : addEmployee(h)
    \/ Listing /\ \E id \in EmployeeIds : removeEmployee(id)
    \/ \E r \in Requests : AddVacationResolved(r)
    \/ \E r \in Requests : AddVacationRejected(r)
    \/ \E r \in Requests : DeleteVacationResolved(r)
    \/ \E r \in Requests : DeleteVacationRejected(r)
    \/ \E r \in Requests : AddEmployeeResolved(r)
    \/ \E r \in Requests : AddEmployeeRejected(r)
    \/ \E r \in Requests : DeleteEmployeeResolved(r)
    \/ \E r \in Requests : RemoveEmployeeRejected(r)
    \/ \E r \in Requests : QueryResolved(r)
    \/ \E r \in Requests : CascadeDeleteResolved(r)
    \/ \E r \in Requests : CascadeDeleteRejected(r)

SpecApp == InitApp /\ [][NextApp]_vars

----------------------------------------------------------------------------
(* The removal scenario over a store that answers every request with        *)
(* success                                                                  *)

InitQuiet == Constructed(2024, 0, OneEmployee, OneVacation)

NextQuiet ==
    \/ \E ok \in BOOLEAN : InitFirebase(ok)
    \/ AuthStateChanged
    \/ EmployeesSnapshot
    \/ VacationsSnapshot
    \/ onDayClick(6)
    \/ \E id \in EmployeeIds : PickEmployee(id)
    \/ tryAssign
    \/ TimerFires
    \/ \E id \in EmployeeIds : removeEmployee(id)
    \/ \E r \in Requests : AddVacationResolved(r)
    \/ \E r \in Requests : DeleteEmployeeResolved(r)
    \/ \E r \in Requests : QueryResolved(r)
    \/ \E r \in Requests : CascadeDeleteResolved(r)

SpecQuiet == InitQuiet /\ [][NextQuiet]_vars

----------------------------------------------------------------------------
(* The repeated assignment scenario: over a store with one employee the     *)
(* user selects a day, picks the employee and clicks "Asignar", once more   *)
(* than in the other scenarios                                              *)

InitTwice == Constructed(2024, 0, OneEmployee, {})

NextTwice ==
    \/ \E ok \in BOOLEAN : InitFirebase(ok)
    \/ AuthStateChanged
    \/ EmployeesSnapshot
    \/ VacationsSnapshot
    \/ onDayClick(6)
    \/ \E id \in EmployeeIds : PickEmployee(id)
    \/ tryAssignWithin(MaxVacations + 1)
    \/ TimerFires
    \/ \E r \in Requests : AddVacationResolved(r)
    \/ \E r \in Requests : AddVacationRejected(r)

SpecTwice == InitTwice /\ [][NextTwice]_vars

----------------------------------------------------------------------------
(* Properties                                                               *)

\* the calendar order of two date strings, read off their fields
Before(a, b) ==
    \/ a[1] < b[1]
    \/ a[1] = b[1] /\ a[2] < b[2]
    \/ a[1] = b[1] /\ a[2] = b[2] /\ a[3] < b[3]

Empty == selectStart = NoDate /\ selectEnd = NoDate
PendingEnd == selectStart # NoDate /\ selectEnd = NoDate
Complete == selectStart # NoDate /\ selectEnd # NoDate

\* C1: a day click d on an Empty selection gives {start: d, end: none}; the
\* next day click gives the two dates in calendar order, whichever was
\* clicked first; a day click d3 on a Complete selection gives
\* {start: d3, end: none}
C1_ClickSequence ==
    [][\A slot \in ClickSlots :
          (selVars' # selVars /\ SlotDate(slot) # NoDate /\ onDayClick(slot)) =>
              LET d == SlotDate(slot)
              IN  /\ Empty => selectStart' = d /\ selectEnd' = NoDate
                  /\ PendingEnd /\ Before(selectStart, d) =>
                         selectStart' = selectStart /\ selectEnd' = d
                  /\ PendingEnd /\ Before(d, selectStart) =>
                         selectStart' = d /\ selectEnd' = selectStart
                  /\ PendingEnd /\ d = selectStart =>
                         selectStart' = d /\ selectEnd' = d
                  /\ Complete => selectStart' = d /\ selectEnd' = NoDate]_vars

\* the later date was clicked first and the selection is in calendar order
C1_ReversedClicks ==
    /\ lastOp = "day click swapped"
    /\ selectStart = <<2023, 12, 2>>
    /\ selectEnd = <<2024, 1, 6>>

\* C2: once removeEmployee(e) was called and every request it issued has
\* resolved without error, and no assign added a vacation of e meanwhile,
\* the store holds neither the employee e nor a vacation whose employeeId is e
C2_CascadeComplete ==
    \A e \in removed.called \ removed.spoiled :
        (\A r \in Requests : r.op \in Deletes => r.emp # e) =>
            /\ \A d \in sEmployees : d.id # e
            /\ \A d \in sVacations : d.data.employeeId # e

\* employee 11 was removed and the cascade deleted its two vacations
C2_BothVacationsCascaded ==
    /\ 11 \in removed.called \ removed.spoiled
    /\ \A r \in Requests : r.op \notin Deletes
    /\ {21, 22} \subseteq removed.cascaded
    /\ \A d \in sVacations : d.data.employeeId # 11

\* the dates of the months of ViewMonths
ViewedDates ==
    UNION {{<<ym[1], ym[2] + 1, d>> : d \in 1..DaysInMonth(ym[1], ym[2] + 1)} :
             ym \in ViewMonths}

\* date d is in the range of vacation v, by the calendar order
Within(d, v) == ~Before(d, v.start) /\ ~Before(v.end, d)

\* C3: a Complete selection with a chosen employee and a store is sent to the
\* store whatever vacations exist, and two cached vacations of different
\* employees are both in vacationsCovering(d) for every date d in both ranges
C3_NoOverlapRejection ==
    /\ (Complete /\ assignEmployeeId # NoId /\ db) => tryAssignVerdict = "send"
    /\ \A v1, v2 \in vacations :
          v1.employeeId # v2.employeeId =>
              \A d \in ViewedDates :
                  Within(d, v1) /\ Within(d, v2) => {v1, v2} \subseteq vacationsCovering(d)

\* employee 12 was assigned a range that overlaps the vacation of employee 11,
\* and both cover 2024-01-06, the last day of both ranges
C3_OverlappingAssigned ==
    \E v \in vacations, w \in vacations :
        /\ v.id = 1 /\ v.employeeId = 12 /\ v.end = <<2024, 1, 6>>
        /\ w.id = 21 /\ w.employeeId = 11
        /\ {v, w} \subseteq vacationsCovering(<<2024, 1, 6>>)

\* C4: the request assign sends carries the selection at that moment, a
\* Complete one with start <= end, and the vacation the store writes for it
\* has the request's employee, start and end
C4_WrittenVacationOrdered ==
    [][/\ \A r \in BagToSet(inflight') :
             (inflight' # inflight /\ r.op = "addDoc vacations"
                /\ CopiesIn(r, inflight') > CopiesIn(r, inflight)) =>
                 /\ Complete
                 /\ r.start = selectStart /\ r.end = selectEnd
                 /\ ~Before(r.end, r.start)
       /\ \A d \in sVacations' \ sVacations :
             /\ ~Before(d.data.end, d.data.start)
             /\ \E r \in Requests :
                   /\ r.op = "addDoc vacations"
                   /\ d.data = [employeeId |-> r.emp, start |-> r.start, end |-> r.end]
                   /\ inflight' = Answered(r)]_vars

\* a vacation from 2023-12-02 to 2024-01-06 was written in this run
C4_RangeWritten ==
    \E d \in sVacations :
        d.id = 1 /\ d.data.start = <<2023, 12, 2>> /\ d.data.end = <<2024, 1, 6>>

\* C5: tryAssign without a Complete selection or without a chosen employee
\* sends nothing to the store, sets a message, and leaves the selection, the
\* chosen employee and the cached lists as they were
C5_ValidationError ==
    [][((selectStart = NoDate \/ selectEnd = NoDate \/ assignEmployeeId = NoId)
          /\ tryAssign) =>
           /\ inflight' = inflight
           /\ message' \in {MsgRange, MsgEmployee}
           /\ UNCHANGED <<selVars, assignEmployeeId, cacheVars, storeVars>>]_vars

\* assign was refused for the missing employee, over a Complete selection
C5_EmployeeMissing ==
    /\ message = MsgEmployee
    /\ Complete
    /\ assignEmployeeId = NoId
    /\ inflight = EmptyBag

\* C6: Cancel and the resumption of tryAssign after a successful add leave
\* the selection Empty, whatever it was; the resumption after a failed add
\* leaves the selection as it was
C6_SelectionCleared ==
    [][/\ Cancel => Empty'
       /\ \A r \in Requests :
             /\ AddVacationResolved(r) => Empty'
             /\ AddVacationRejected(r) => UNCHANGED selVars]_vars

\* the add succeeded over a selection that day clicks had changed meanwhile
C6_ClearedChangedSelection ==
    /\ lastOp = "assigned over a changed selection"
    /\ Empty
    /\ nextVacId = 1

NonEmptySlot(x) == x # NoDate

\* C7: the grid of the viewed month has weeks of 7 slots; its non-empty
\* slots are the days 1..n of the month in order; day 1 is in column w, the
\* weekday of the first; empty slots are only before day 1 and after day n
C7_GridShape ==
    LET weeks == monthDays(viewYear, viewMonth)
        flat == Flat(weeks)
        w == GetDay(NewDate(viewYear, viewMonth, 1))
        n == DaysInMonth(viewYear, viewMonth + 1)
    IN  /\ \A i \in 1..Len(weeks) : Len(weeks[i]) = 7
        /\ SelectSeq(flat, NonEmptySlot) = [d \in 1..n |-> <<viewYear, viewMonth + 1, d>>]
        /\ flat[w + 1] = <<viewYear, viewMonth + 1, 1>>
        /\ \A i \in 1..Len(flat) : flat[i] = NoDate => (i <= w \/ i > w + n)

\* February 2024 is viewed: 29 days, the first a Thursday, in five weeks
C7_LeapFebruary ==
    /\ lifecycle = "mounted"
    /\ viewYear = 2024 /\ viewMonth = 1
    /\ Len(monthDays(viewYear, viewMonth)) = 5
    /\ monthDays(viewYear, viewMonth)[1][5] = <<2024, 2, 1>>
    /\ monthDays(viewYear, viewMonth)[5][5] = <<2024, 2, 29>>

\* C8: rangesOverlap is true exactly when aEnd >= bStart and bEnd >= aStart in
\* the calendar order, and exchanging the two ranges gives the same result
C8_RangesOverlap ==
    fnOut # <<>> =>
        LET aStart == fnArgs[1]
            aEnd == fnArgs[2]
            bStart == fnArgs[3]
            bEnd == fnArgs[4]
        IN  /\ fnOut[1] = (~Before(aEnd, bStart) /\ ~Before(bEnd, aStart))
            /\ fnOut[1] = rangesOverlap(bStart, bEnd, aStart, aEnd)

\* the ranges 2024-01-10..15 and 2024-01-15..20 share a boundary and overlap
C8_SharedBoundary ==
    /\ fnArgs = <<<<2024, 1, 10>>, <<2024, 1, 15>>, <<2024, 1, 15>>, <<2024, 1, 20>>>>
    /\ fnOut = <<TRUE>>

\* ids looked up: those of the cached vacations, no id, and two employee ids
LookedUp == {v.employeeId : v \in vacations} \cup {NoId, 11, 12}

\* C9: looking up an id gives the cached employee with that id when there is
\* one, and otherwise the placeholder named "Desconocido" with color "gray"
C9_LookupDegrades ==
    \A id \in LookedUp :
        IF \E c \in employees : c.id = id
        THEN employeeById(id) \in employees /\ employeeById(id).id = id
        ELSE employeeById(id) =
                [name |-> <<"D", "e", "s", "c", "o", "n", "o", "c", "i", "d", "o">>,
                 color |-> <<"gray">>]

\* a cached vacation whose employee is not cached shows the placeholder
C9_OrphanVacation ==
    \E v \in vacations :
        /\ \A c \in employees : c.id # v.employeeId
        /\ employeeById(v.employeeId).color = <<"gray">>

\* C9 as the specification words it: the placeholder is named "Unknown"
C9_LookupUnknown ==
    \A id \in LookedUp :
        IF \E c \in employees : c.id = id
        THEN employeeById(id) \in employees /\ employeeById(id).id = id
        ELSE /\ employeeById(id).name = <<"U", "n", "k", "n", "o", "w", "n">>
             /\ employeeById(id).color = <<"gray">>

\* C10: when the store rejects an add or a delete of addEmployee,
\* removeEmployee, removeVacation or tryAssign, a message is set, no request
\* is sent again and the cached lists stay as they were
C10_FailureSurfaced ==
    [][\A r \in Requests :
          (\/ AddVacationRejected(r)
           \/ DeleteVacationRejected(r)
           \/ AddEmployeeRejected(r)
           \/ (r.op = "deleteDoc employee" /\ RemoveEmployeeRejected(r))
           \/ CascadeDeleteRejected(r)) =>
              /\ message' # NoMsg
              /\ inflight' = Answered(r)
              /\ UNCHANGED cacheVars]_vars

\* C11: addEmployee, removeEmployee, removeVacation or tryAssign invoked
\* while db is null sends nothing to the store and sets the message that
\* reports the unavailable store
C11_StoreUnavailableReported ==
    [][(~db /\ (\/ tryAssign
                \/ \E h \in Hues : addEmployee(h)
                \/ \E id \in VacationIds : removeVacation(id)
                \/ \E id \in EmployeeIds : removeEmployee(id))) =>
           /\ inflight' = inflight
           /\ message' = MsgNoDb]_vars

AllSpaces(s) == \A i \in 1..Len(s) : s[i] = " "

\* name is text without the spaces at its two ends
TrimmedOf(name, text) ==
    /\ name # <<>>
    /\ name[1] # " " /\ name[Len(name)] # " "
    /\ \E i \in 1..Len(text) :
          /\ i + Len(name) - 1 <= Len(text)
          /\ SubSeq(text, i, i + Len(name) - 1) = name
          /\ AllSpaces(SubSeq(text, 1, i - 1))
          /\ AllSpaces(SubSeq(text, i + Len(name), Len(text)))

\* C12: addEmployee over an empty or all-spaces name sends nothing to the
\* store and changes no state; the request addEmployee sends carries the
\* trimmed, non-empty name, and the employee the store writes has that name
C12_TrimmedName ==
    [][/\ \A h \in Hues :
             (AllSpaces(newEmployeeName) /\ addEmployee(h)) =>
                 /\ inflight' = inflight
                 /\ UNCHANGED <<cacheVars, viewVars, selVars, assignEmployeeId,
                                newEmployeeName, message, bootVars, timers, storeVars>>
       /\ \A r \in BagToSet(inflight') :
             (inflight' # inflight /\ r.op = "addDoc employees"
                /\ CopiesIn(r, inflight') > CopiesIn(r, inflight)) =>
                 TrimmedOf(r.name, newEmployeeName)
       /\ \A d \in sEmployees' \ sEmployees :
             /\ d.data.name # <<>>
             /\ d.data.name[1] # " " /\ d.data.name[Len(d.data.name)] # " "
             /\ \E r \in Requests :
                   /\ r.op = "addDoc employees"
                   /\ d.data.name = r.name
                   /\ inflight' = Answered(r)]_vars

\* the employee "A" was written from the input " A ", and a later "+" over
\* the input " " returned without a request
C12_NameWrittenThenRefused ==
    /\ \E d \in sEmployees : d.id = 1 /\ d.data.name = <<"A">>
    /\ db
    /\ newEmployeeName = <<" ">>
    /\ lastOp = "addEmployee returned"
    /\ inflight = EmptyBag

\* C13: every message that is set is cleared later, by the timer or by a
\* later successful action, with no help from the user
C13_MessageCleared == (message # NoMsg) ~> (message = NoMsg)

\* C14: the cached lists change only while the component is mounted with db
\* set and auth ready, and the auth callback runs only while mounted: after
\* teardown no snapshot changes the cached lists
C14_SubscriptionsTornDown ==
    [][/\ cacheVars' # cacheVars =>
             (lifecycle = "mounted" /\ db /\ isAuthReady /\ lifecycle' = "mounted")
       /\ isAuthReady' # isAuthReady => lifecycle = "mounted"
       /\ lifecycle = "unmounted" => lifecycle' = "unmounted" /\ UNCHANGED cacheVars]_vars

\* after teardown the store deleted the vacation and the cached list still
\* holds it
C14_StaleAfterTeardown ==
    /\ lifecycle = "unmounted"
    /\ db /\ isAuthReady
    /\ sVacations = {}
    /\ \E v \in vacations : v.id = 21

\* C15: the selection is Empty, PendingEnd or Complete: end is set only if
\* start is, and a Complete selection has start <= end
C15_SelectionShape ==
    /\ selectEnd # NoDate => selectStart # NoDate
    /\ Complete => ~Before(selectEnd, selectStart)

\* a Complete selection over two months that a failed assign left in place
C15_CompleteAfterFailedAssign ==
    /\ Complete
    /\ Before(selectStart, selectEnd)
    /\ message = MsgAssignFail

\* C16: a click on a padding slot leaves the selection, the chosen employee,
\* the message, the view cursor and the cached lists as they were
C16_PaddingClickNoOp ==
    [][\A slot \in ClickSlots :
          (SlotDate(slot) = NoDate /\ onDayClick(slot)) =>
              UNCHANGED <<selVars, assignEmployeeId, message, viewVars, cacheVars>>]_vars

\* a padding click over a Complete selection with a message showing
C16_PaddingClickOnComplete ==
    /\ lastOp = "padding click"
    /\ Complete
    /\ assignEmployeeId # NoId
    /\ message = MsgAssignFail

\* C17: no rejection of a store request goes unhandled
C17_NoUnhandledRejection == lastOp # "unhandled rejection"

\* C18: the cached lists change only in the snapshot callbacks, each of which
\* replaces the whole list by the records of the snapshot; no handler, reply,
\* timer or lifecycle step changes them
C18_CachesFromSnapshots ==
    [][/\ employees' # employees =>
             /\ employees' = {EmployeeOfDoc(d) : d \in sEmployees}
             /\ EmployeesSnapshot
       /\ vacations' # vacations =>
             /\ vacations' = {VacationOfDoc(d) : d \in sVacations}
             /\ VacationsSnapshot]_vars

\* a snapshot replaced the cached vacations by the empty list after the
\* cascade, and the employee added in this run is cached
C18_ListsReplaced ==
    /\ vacations = {}
    /\ sVacations = {}
    /\ 21 \in removed.cascaded
    /\ \E e \in employees : e.id = 1 /\ e.name = <<"A">>

\* C19: prev and next move the view cursor by one month, over the year's end
\* in both directions, so that the month stays in 0..11 and next undoes prev;
\* today sets the cursor to a month of 0..11; the three leave the selection
\* and the cached lists as they were, and no other step moves the cursor
C19_ViewCursor ==
    [][/\ viewMonth' \in 0..11
       /\ viewVars' # viewVars =>
             /\ UNCHANGED <<selVars, cacheVars>>
             /\ PrevMonth(AppMonths) =>
                   viewYear' * 12 + viewMonth' = viewYear * 12 + viewMonth - 1
             /\ NextMonth(AppMonths) =>
                   viewYear' * 12 + viewMonth' = viewYear * 12 + viewMonth + 1
             /\ \/ PrevMonth(AppMonths)
                \/ NextMonth(AppMonths)
                \/ \E ym \in AppMonths : Today(ym[1], ym[2])]_vars

\* December 2023 is viewed, reached from January 2024, with a selection
C19_DecemberWithSelection ==
    /\ viewYear = 2023 /\ viewMonth = 11
    /\ selectStart = <<2024, 1, 1>>
    /\ vacations # {}

\* C20: when no request is in flight and none was rejected, every vacation in
\* the store has the id of an employee in the store
C20_NoOrphanAtQuiescence ==
    inflight = EmptyBag =>
        \A v \in sVacations : \E e \in sEmployees : e.id = v.data.employeeId

\* C21: while an add for a selection and employee is in flight, another
\* "Asignar" over the same selection and employee sends no second add
C21_OneAddPerSelection ==
    \A r \in Requests : r.op = "addDoc vacations" => inflight[r] = 1

\* C22: the timer of a successful assign clears only the success message: a
\* message set after the success is still there when the timer has run
C22_TimerClearsOwnMessage ==
    [][(TimerFires /\ message # MsgAssigned) => message' = message]_vars

====
